---- MODULE Spec2Model ----
(***************************************************************************)
(* Model of the pool controller server (pool-controller.js): the mode      *)
(* orchestrator (switchToMode and the /mode/:modeKey route), the valve     *)
(* timeline (currentValvePercent), the relay driver (PoolController) and   *)
(* the status read path (statusPayload).                                   *)
(*                                                                         *)
(* Node runs every handler to completion, so one action is one handler,    *)
(* or the part of switchToMode before or after its single await.           *)
(* Percentages are JavaScript numbers.  Time advances in steps of TickMs,  *)
(* so every percentage is a multiple of 1/Scale and is kept as the exact   *)
(* integer percent * Scale.                                                *)
(***************************************************************************)
EXTENDS Integers, Sequences, FiniteSets, TLC

\* ---- program constants ----
VALVE_WAIT_MS == 30000

NumPins == 5

DefaultOrder == 999

\* ---- bounds of the model ----
TicksPerTravel == 2

MaxTicks == 5

MaxFaults == 1

MaxToggles == 1

TickMs == VALVE_WAIT_MS \div TicksPerTravel

MaxNow == MaxTicks * TickMs

RECURSIVE Pow(_, _)
Pow(b, e) == IF e = 0 THEN 1 ELSE b * Pow(b, e - 1)

\* a percentage p is stored as p * Scale
Scale == Pow(TicksPerTravel, MaxFaults + 1)

Pct(p) == p * Scale

Null == "null"

\* ---- EquipmentState ----
ES(p, s, i, o, h) ==
  [pump |-> p, pumpSpeed |-> s, inflowValve |-> i, outflowValve |-> o, heater |-> h]

DefaultEquipment == ES("off", "low", "pool", "pool", "off")

EquipmentStates ==
  [pump : {"on", "off"}, pumpSpeed : {"low", "high"}, inflowValve : {"pool", "spa"},
   outflowValve : {"pool", "spa"}, heater : {"on", "off"}]

\* ---- Mode catalog ----
MC(order, eq) == [order |-> order, equipment |-> eq]

\* the four modes the project documents, with the equipment the spec's
\* scenario gives for auto and spa
StandardCatalog ==
  ("auto" :> MC(1, ES("on", "low", "pool", "pool", "off"))) @@
  ("spa" :> MC(2, ES("on", "high", "spa", "spa", "on"))) @@
  ("turbo-clean" :> MC(3, ES("on", "high", "pool", "pool", "off"))) @@
  ("service" :> MC(DefaultOrder, ES("off", "low", "pool", "pool", "off")))

\* a catalog with a second spa-routed mode at high speed and a mode with
\* exactly one valve on spa
VariantCatalog ==
  ("auto" :> MC(1, ES("on", "low", "pool", "pool", "off"))) @@
  ("spa" :> MC(2, ES("on", "high", "spa", "spa", "on"))) @@
  ("turbo-clean" :> MC(2, ES("on", "high", "spa", "spa", "off"))) @@
  ("service" :> MC(DefaultOrder, ES("off", "low", "spa", "pool", "off")))

Catalogs == {StandardCatalog, VariantCatalog}

\* the order in which loadFromDirectory reads the mode files and inserts
\* their keys into the Map
InsertionOrder == <<"auto", "service", "spa", "turbo-clean">>

\* ModeConfig.getSortedModes: the keys by ascending order, ties in insertion
\* order (Array.prototype.sort is stable)
GetSortedModes(cat) ==
  LET keys == SelectSeq(InsertionOrder, LAMBDA k : k \in DOMAIN cat)
      n == Len(keys)
      Before(a, b) ==
        \/ cat[keys[a]].order < cat[keys[b]].order
        \/ cat[keys[a]].order = cat[keys[b]].order /\ a < b
      Pos(i) == Cardinality({j \in 1..n : Before(j, i)}) + 1
  IN [p \in 1..n |-> keys[CHOOSE i \in 1..n : Pos(i) = p]]

\* the list of modes sent to a client: key and order of each mode
SortedList(cat) ==
  LET sorted == GetSortedModes(cat)
  IN [p \in 1..Len(sorted) |-> [key |-> sorted[p], order |-> cat[sorted[p]].order]]

\* the lists of the catalogs loaded at startup, computed once
SortedLists == [cat \in Catalogs |-> SortedList(cat)]

ModesList(cat) == IF cat \in Catalogs THEN SortedLists[cat] ELSE SortedList(cat)

UnknownKey == "bogus"

RequestKeys == {"auto", "spa", "turbo-clean", "service", UnknownKey}

\* ---- Relay driver ----
PinOrder == <<"PUMP", "PUMP_TURBO", "RELAY_INFLOW", "RELAY_OUTFLOW", "HEATER_SPA">>

PinNames == {PinOrder[i] : i \in 1..NumPins}

PinIndex(p) == CHOOSE i \in 1..NumPins : PinOrder[i] = p

AllLow == [p \in PinNames |-> 0]

\* the pin image with PUMP_TURBO following pumpSpeed alone
PinImageTurboIgnoresPump(eq) ==
  [p \in PinNames |->
     CASE p = "PUMP" -> IF eq.pump = "on" THEN 1 ELSE 0
       [] p = "PUMP_TURBO" -> IF eq.pumpSpeed = "high" THEN 1 ELSE 0
       [] p = "RELAY_INFLOW" -> IF eq.inflowValve = "spa" THEN 1 ELSE 0
       [] p = "RELAY_OUTFLOW" -> IF eq.outflowValve = "spa" THEN 1 ELSE 0
       [] p = "HEATER_SPA" -> IF eq.heater = "on" THEN 1 ELSE 0]

\* newGpioStates of applyEquipmentState
PinImage(eq) ==
  [p \in PinNames |->
     CASE p = "PUMP" -> IF eq.pump = "on" THEN 1 ELSE 0
       [] p = "PUMP_TURBO" -> IF eq.pump = "on" /\ eq.pumpSpeed = "high" THEN 1 ELSE 0
       [] p = "RELAY_INFLOW" -> IF eq.inflowValve = "spa" THEN 1 ELSE 0
       [] p = "RELAY_OUTFLOW" -> IF eq.outflowValve = "spa" THEN 1 ELSE 0
       [] p = "HEATER_SPA" -> IF eq.heater = "on" THEN 1 ELSE 0]

\* A fault f in 0..NumPins: the (f+1)-th digitalWrite throws after f pins have
\* been written; f = NumPins is the call in which no write throws.
NoFault == NumPins

\* the faults injected: the first write throws, or a write in the middle does
FaultPoints == {0, 2}

\* a write can throw only on a real line, outside simulator mode
FaultChoices(s) ==
  IF s.simulatorMode \/ ~s.gpioReal \/ s.faults >= MaxFaults
    THEN {NoFault}
    ELSE FaultPoints \cup {NoFault}

\* the fault of a handler's second driver call, which it makes only after
\* its first one threw
FallbackChoices(s, f1) ==
  IF f1 = NoFault THEN {NoFault} ELSE FaultPoints \cup {NoFault}

VARIABLES
  modes,                  \* the catalog loaded at startup
  status,                 \* status: mode, target, busy, lastError
  valve,                  \* valve: percent, moving, from, to, startMs, durationMs
  currentState,           \* poolController.currentState
  gpioStates,             \* poolController.gpioStates
  hw,                     \* the levels of the output pins themselves
  simulatorMode,          \* simulatorMode / poolController.simulator
  explicitSimulatorMode,  \* SIMULATOR_MODE=true at startup
  gpioHardwareAvailable,  \* result of detectGpioHardware
  gpioReal,               \* gpio[pin] wraps a real line (not the mock object)
  now,                    \* Date.now()
  tasks,                  \* switchToMode calls suspended in await sleep
  faults,                 \* number of handler runs in which a digitalWrite has thrown
  toggles                 \* number of changes of simulatorMode

vars == <<modes, status, valve, currentState, gpioStates, hw, simulatorMode,
          explicitSimulatorMode, gpioHardwareAvailable, gpioReal, now, tasks,
          faults, toggles>>

\* the program state as one record, for the operators below; calls and
\* started count what the handler being run has done so far
St ==
  [modes |-> modes, status |-> status, valve |-> valve, currentState |-> currentState,
   gpioStates |-> gpioStates, hw |-> hw, simulatorMode |-> simulatorMode,
   explicitSimulatorMode |-> explicitSimulatorMode,
   gpioHardwareAvailable |-> gpioHardwareAvailable, gpioReal |-> gpioReal,
   tasks |-> tasks, faults |-> faults, toggles |-> toggles, calls |-> 0, started |-> 0]

Assign(s) ==
  /\ modes' = s.modes
  /\ status' = s.status
  /\ valve' = s.valve
  /\ currentState' = s.currentState
  /\ gpioStates' = s.gpioStates
  /\ hw' = s.hw
  /\ simulatorMode' = s.simulatorMode
  /\ explicitSimulatorMode' = s.explicitSimulatorMode
  /\ gpioHardwareAvailable' = s.gpioHardwareAvailable
  /\ gpioReal' = s.gpioReal
  /\ tasks' = s.tasks
  /\ faults' = s.faults
  /\ toggles' = s.toggles

\* applyEquipmentState returning in simulator mode before it records
\* anything
ApplyEquipmentStateSimulatorSkipsAll(s, eq, f) ==
  LET newGpioStates == PinImage(eq)
      s1 == [s EXCEPT !.currentState = eq, !.gpioStates = newGpioStates,
                      !.calls = @ + 1]
  IN IF s.simulatorMode
       THEN [st |-> [s EXCEPT !.calls = @ + 1], threw |-> FALSE]
     ELSE IF ~s.gpioReal
       THEN [st |-> s1, threw |-> FALSE]
       ELSE [st |-> [s1 EXCEPT
                       !.hw = [p \in PinNames |->
                                 IF PinIndex(p) <= f THEN newGpioStates[p] ELSE s.hw[p]],
                       !.faults = IF f < NumPins /\ s.calls = 0 THEN @ + 1 ELSE @],
             threw |-> f < NumPins]

\* PoolController.applyEquipmentState: the result state and whether it threw
ApplyEquipmentState(s, eq, f) ==
  LET newGpioStates == PinImage(eq)
      s1 == [s EXCEPT !.currentState = eq, !.gpioStates = newGpioStates,
                      !.calls = @ + 1]
  IN IF s.simulatorMode \/ ~s.gpioReal
       THEN [st |-> s1, threw |-> FALSE]
       ELSE [st |-> [s1 EXCEPT
                       !.hw = [p \in PinNames |->
                                 IF PinIndex(p) <= f THEN newGpioStates[p] ELSE s.hw[p]],
                       !.faults = IF f < NumPins /\ s.calls = 0 THEN @ + 1 ELSE @],
             threw |-> f < NumPins]

\* ---- Valve timeline ----
\* the clamp without its upper limit
ClampLowerOnly(x, lo, hi) == IF x < lo THEN lo ELSE x

Clamp(x, lo, hi) == IF x < lo THEN lo ELSE IF x > hi THEN hi ELSE x

CurrentValvePercent(v, t) ==
  IF ~v.moving THEN v.percent
  ELSE v.from + ((v.to - v.from) * Clamp(t - v.startMs, 0, v.durationMs)) \div v.durationMs

\* the valve target with one valve on spa counted as spa
GetValvePercentEitherValve(cat, modeKey) ==
  IF modeKey \notin DOMAIN cat THEN Pct(0)
  ELSE IF cat[modeKey].equipment.inflowValve = "spa"
          \/ cat[modeKey].equipment.outflowValve = "spa"
       THEN Pct(100)
       ELSE Pct(0)

\* the valve target with exactly one valve on spa counted as half-way
GetValvePercentHalfWhenMixed(cat, modeKey) ==
  IF modeKey \notin DOMAIN cat THEN Pct(0)
  ELSE IF cat[modeKey].equipment.inflowValve = "spa"
          /\ cat[modeKey].equipment.outflowValve = "spa"
       THEN Pct(100)
  ELSE IF cat[modeKey].equipment.inflowValve = "spa"
          \/ cat[modeKey].equipment.outflowValve = "spa"
       THEN Pct(50)
       ELSE Pct(0)

GetValvePercentForMode(cat, modeKey) ==
  IF modeKey \notin DOMAIN cat THEN Pct(0)
  ELSE IF cat[modeKey].equipment.inflowValve = "spa"
          /\ cat[modeKey].equipment.outflowValve = "spa"
       THEN Pct(100)
       ELSE Pct(0)

\* ---- statusPayload ----
StatusPayload(s, t) ==
  [ok |-> TRUE,
   mode |-> s.status.mode,
   busy |-> s.status.busy,
   target |-> s.status.target,
   equipment |-> s.currentState,
   gpio |-> s.gpioStates,
   serverNow |-> t,
   valveWaitMs |-> VALVE_WAIT_MS,
   valve |-> [percent |-> CurrentValvePercent(s.valve, t),
              moving |-> s.valve.moving,
              from |-> s.valve.from,
              to |-> s.valve.to,
              startMs |-> s.valve.startMs,
              durationMs |-> s.valve.durationMs],
   modes |-> ModesList(s.modes),
   simulator |-> s.simulatorMode,
   gpioHardwareAvailable |-> s.gpioHardwareAvailable,
   lastError |-> s.status.lastError]

\* ---- switchToMode ----
DriverError == "Error: digitalWrite failed"

\* the catch block of switchToMode; an exception thrown inside it leaves
\* through the finally block
CatchBlock(s, modeKey, f) ==
  LET s1 == [s EXCEPT !.status.lastError = DriverError]
  IN IF "service" \in DOMAIN s.modes /\ modeKey # "service"
       THEN LET a == ApplyEquipmentState(s1, s.modes["service"].equipment, f)
            IN IF a.threw
                 THEN a.st
                 ELSE [a.st EXCEPT !.status.mode = "service",
                                   !.valve.percent = Pct(0),
                                   !.valve.moving = FALSE]
       ELSE s1

\* the finally block clearing busy only
FinallyBlockKeepsTarget(s) ==
  [s EXCEPT !.status.busy = FALSE]

\* busy and target cleared at the end of the try block instead of in finally
FinallyBlockOnSuccessOnly(s) ==
  IF s.status.lastError # Null
    THEN s
    ELSE [s EXCEPT !.status.busy = FALSE, !.status.target = Null]

FinallyBlock(s) ==
  [s EXCEPT !.status.busy = FALSE, !.status.target = Null]

\* switchToMode writing the low speed into the catalog's own EquipmentState
\* (no copy() at line 386)
SwitchToModeBeginNoCopy(s, modeKey, t, f1, f2) ==
  IF modeKey \notin DOMAIN s.modes THEN s
  ELSE
    LET s0 == [s EXCEPT !.status.busy = TRUE, !.status.target = modeKey,
                        !.started = @ + 1]
        currentValvePct == CurrentValvePercent(s0.valve, t)
        targetValvePct == GetValvePercentForMode(s.modes, modeKey)
        s1 == IF currentValvePct # targetValvePct
                THEN [s0 EXCEPT !.valve.from = currentValvePct,
                                !.valve.to = targetValvePct,
                                !.valve.startMs = t,
                                !.valve.durationMs = VALVE_WAIT_MS,
                                !.valve.moving = TRUE]
                ELSE s0
        s2 == IF modeKey = "spa" /\ targetValvePct > currentValvePct
                THEN [s1 EXCEPT !.modes[modeKey].equipment.pumpSpeed = "low"]
                ELSE s1
        a == ApplyEquipmentState(s2, s2.modes[modeKey].equipment, f1)
    IN IF a.threw
         THEN FinallyBlock(CatchBlock(a.st, modeKey, f2))
         ELSE IF a.st.valve.moving
           THEN [a.st EXCEPT !.tasks =
                   Append(@, [modeKey |-> modeKey, targetValvePct |-> targetValvePct,
                              wakeAt |-> t + VALVE_WAIT_MS])]
           ELSE FinallyBlock([a.st EXCEPT !.status.mode = modeKey])

\* switchToMode from its call to its await (or to its end when it does not
\* suspend); t is Date.now(), f1 and f2 the faults of its driver calls
SwitchToModeBegin(s, modeKey, t, f1, f2) ==
  IF modeKey \notin DOMAIN s.modes THEN s
  ELSE
    LET s0 == [s EXCEPT !.status.busy = TRUE, !.status.target = modeKey,
                        !.started = @ + 1]
        currentValvePct == CurrentValvePercent(s0.valve, t)
        targetValvePct == GetValvePercentForMode(s.modes, modeKey)
        s1 == IF currentValvePct # targetValvePct
                THEN [s0 EXCEPT !.valve.from = currentValvePct,
                                !.valve.to = targetValvePct,
                                !.valve.startMs = t,
                                !.valve.durationMs = VALVE_WAIT_MS,
                                !.valve.moving = TRUE]
                ELSE s0
        targetEq == s.modes[modeKey].equipment
        equipmentState ==
          IF modeKey = "spa" /\ targetValvePct > currentValvePct
            THEN [targetEq EXCEPT !.pumpSpeed = "low"]
            ELSE targetEq
        a == ApplyEquipmentState(s1, equipmentState, f1)
    IN IF a.threw
         THEN FinallyBlock(CatchBlock(a.st, modeKey, f2))
         ELSE IF a.st.valve.moving
           THEN [a.st EXCEPT !.tasks =
                   Append(@, [modeKey |-> modeKey, targetValvePct |-> targetValvePct,
                              wakeAt |-> t + VALVE_WAIT_MS])]
           ELSE FinallyBlock([a.st EXCEPT !.status.mode = modeKey])

\* the resumption stopping the timeline without storing the target percent
SwitchToModeResumeNoPercent(s, task, f1, f2) ==
  LET s1 == [s EXCEPT !.valve.moving = FALSE]
      a == IF task.modeKey = "spa"
             THEN ApplyEquipmentState(s1, s.modes[task.modeKey].equipment, f1)
             ELSE [st |-> s1, threw |-> FALSE]
  IN IF a.threw
       THEN FinallyBlock(CatchBlock(a.st, task.modeKey, f2))
       ELSE FinallyBlock([a.st EXCEPT !.status.mode = task.modeKey])

\* switchToMode from the return of its await sleep to its end
SwitchToModeResume(s, task, f1, f2) ==
  LET s1 == [s EXCEPT !.valve.percent = task.targetValvePct, !.valve.moving = FALSE]
      a == IF task.modeKey = "spa"
             THEN ApplyEquipmentState(s1, s.modes[task.modeKey].equipment, f1)
             ELSE [st |-> s1, threw |-> FALSE]
  IN IF a.threw
       THEN FinallyBlock(CatchBlock(a.st, task.modeKey, f2))
       ELSE FinallyBlock([a.st EXCEPT !.status.mode = task.modeKey])

\* ---- routes ----
\* the route without its busy check: a request while busy starts a transition
ModeRouteNoBusyGate(s, modeKey, t, f1, f2) ==
  IF modeKey \notin DOMAIN s.modes
    THEN [st |-> s, code |-> 404, body |-> [ok |-> FALSE, message |-> "Unknown mode"]]
  ELSE IF ~s.status.busy /\ s.status.mode = modeKey
    THEN [st |-> s, code |-> 200, body |-> StatusPayload(s, t)]
  ELSE IF s.status.busy /\ s.status.target = modeKey
    THEN [st |-> s, code |-> 200, body |-> StatusPayload(s, t)]
  ELSE LET s2 == SwitchToModeBegin(s, modeKey, t, f1, f2)
       IN [st |-> s2, code |-> 200, body |-> StatusPayload(s2, t)]

\* the route recording the requested target before it rejects the request
ModeRouteBusyOverwrite(s, modeKey, t, f1, f2) ==
  IF modeKey \notin DOMAIN s.modes
    THEN [st |-> s, code |-> 404, body |-> [ok |-> FALSE, message |-> "Unknown mode"]]
  ELSE IF ~s.status.busy /\ s.status.mode = modeKey
    THEN [st |-> s, code |-> 200, body |-> StatusPayload(s, t)]
  ELSE IF s.status.busy /\ s.status.target = modeKey
    THEN [st |-> s, code |-> 200, body |-> StatusPayload(s, t)]
  ELSE IF s.status.busy
    THEN [st |-> [s EXCEPT !.status.target = modeKey], code |-> 409,
          body |-> [ok |-> FALSE, busy |-> TRUE, message |-> "Busy with another operation"]]
  ELSE LET s2 == SwitchToModeBegin(s, modeKey, t, f1, f2)
       IN [st |-> s2, code |-> 200, body |-> StatusPayload(s2, t)]

\* the route without its check of the key
ModeRouteNoKeyCheck(s, modeKey, t, f1, f2) ==
  IF ~s.status.busy /\ s.status.mode = modeKey
    THEN [st |-> s, code |-> 200, body |-> StatusPayload(s, t)]
  ELSE IF s.status.busy /\ s.status.target = modeKey
    THEN [st |-> s, code |-> 200, body |-> StatusPayload(s, t)]
  ELSE IF s.status.busy
    THEN [st |-> s, code |-> 409,
          body |-> [ok |-> FALSE, busy |-> TRUE, message |-> "Busy with another operation"]]
  ELSE LET s2 == SwitchToModeBegin(s, modeKey, t, f1, f2)
       IN [st |-> s2, code |-> 200, body |-> StatusPayload(s2, t)]

\* the route restarting the transition on a retry of the same target
ModeRouteRetryRestarts(s, modeKey, t, f1, f2) ==
  IF modeKey \notin DOMAIN s.modes
    THEN [st |-> s, code |-> 404, body |-> [ok |-> FALSE, message |-> "Unknown mode"]]
  ELSE IF ~s.status.busy /\ s.status.mode = modeKey
    THEN [st |-> s, code |-> 200, body |-> StatusPayload(s, t)]
  ELSE IF s.status.busy /\ s.status.target # modeKey
    THEN [st |-> s, code |-> 409,
          body |-> [ok |-> FALSE, busy |-> TRUE, message |-> "Busy with another operation"]]
  ELSE LET s2 == SwitchToModeBegin(s, modeKey, t, f1, f2)
       IN [st |-> s2, code |-> 200, body |-> StatusPayload(s2, t)]

\* the route building its response before it calls switchToMode
ModeRouteStaleResponse(s, modeKey, t, f1, f2) ==
  IF modeKey \notin DOMAIN s.modes
    THEN [st |-> s, code |-> 404, body |-> [ok |-> FALSE, message |-> "Unknown mode"]]
  ELSE IF ~s.status.busy /\ s.status.mode = modeKey
    THEN [st |-> s, code |-> 200, body |-> StatusPayload(s, t)]
  ELSE IF s.status.busy /\ s.status.target = modeKey
    THEN [st |-> s, code |-> 200, body |-> StatusPayload(s, t)]
  ELSE IF s.status.busy
    THEN [st |-> s, code |-> 409,
          body |-> [ok |-> FALSE, busy |-> TRUE, message |-> "Busy with another operation"]]
  ELSE LET s2 == SwitchToModeBegin(s, modeKey, t, f1, f2)
       IN [st |-> s2, code |-> 200, body |-> StatusPayload(s, t)]

\* the route clearing lastError when it rejects a request
ModeRouteRejectClearsError(s, modeKey, t, f1, f2) ==
  IF modeKey \notin DOMAIN s.modes
    THEN [st |-> s, code |-> 404, body |-> [ok |-> FALSE, message |-> "Unknown mode"]]
  ELSE IF ~s.status.busy /\ s.status.mode = modeKey
    THEN [st |-> s, code |-> 200, body |-> StatusPayload(s, t)]
  ELSE IF s.status.busy /\ s.status.target = modeKey
    THEN [st |-> s, code |-> 200, body |-> StatusPayload(s, t)]
  ELSE IF s.status.busy
    THEN [st |-> [s EXCEPT !.status.lastError = Null], code |-> 409,
          body |-> [ok |-> FALSE, busy |-> TRUE, message |-> "Busy with another operation"]]
  ELSE LET s2 == SwitchToModeBegin(s, modeKey, t, f1, f2)
       IN [st |-> s2, code |-> 200, body |-> StatusPayload(s2, t)]

\* app.get('/mode/:modeKey')
ModeRoute(s, modeKey, t, f1, f2) ==
  IF modeKey \notin DOMAIN s.modes
    THEN [st |-> s, code |-> 404, body |-> [ok |-> FALSE, message |-> "Unknown mode"]]
  ELSE IF ~s.status.busy /\ s.status.mode = modeKey
    THEN [st |-> s, code |-> 200, body |-> StatusPayload(s, t)]
  ELSE IF s.status.busy /\ s.status.target = modeKey
    THEN [st |-> s, code |-> 200, body |-> StatusPayload(s, t)]
  ELSE IF s.status.busy
    THEN [st |-> s, code |-> 409,
          body |-> [ok |-> FALSE, busy |-> TRUE, message |-> "Busy with another operation"]]
  ELSE LET s2 == SwitchToModeBegin(s, modeKey, t, f1, f2)
       IN [st |-> s2, code |-> 200, body |-> StatusPayload(s2, t)]

\* app._router.stack: the layers in registration order, each with the path
\* of its route, Null for a middleware layer
RouterStack ==
  <<Null, Null, Null, "/mode/:modeKey", "/modes", "/equipment/:type",
    "/spa/on", "/spa/off", "/status", "/simulator", "/simulator", Null, "/">>

\* app._router.stack.find(layer => layer.route && layer.route.path === path)
FindLayer(path) ==
  IF \E i \in 1..Len(RouterStack) : RouterStack[i] = path
    THEN CHOOSE i \in 1..Len(RouterStack) :
           /\ RouterStack[i] = path
           /\ \A j \in 1..(i - 1) : RouterStack[j] # path
    ELSE 0

\* GET /spa/on: sets req.params.modeKey = 'spa' and calls the handler of
\* the /mode/:modeKey layer; 500 when there is no such layer
SpaOnRoute(s, t, f1, f2) ==
  IF FindLayer("/mode/:modeKey") # 0
    THEN ModeRoute(s, "spa", t, f1, f2)
    ELSE [st |-> s, code |-> 500,
          body |-> [ok |-> FALSE, message |-> "Route handler not found"]]

\* /spa/off delegating with modeKey = 'service'
SpaOffRouteToService(s, t, f1, f2) ==
  IF FindLayer("/mode/:modeKey") # 0
    THEN ModeRoute(s, "service", t, f1, f2)
    ELSE [st |-> s, code |-> 500,
          body |-> [ok |-> FALSE, message |-> "Route handler not found"]]

\* GET /spa/off: sets req.params.modeKey = 'auto' and calls the handler of
\* the /mode/:modeKey layer; 500 when there is no such layer
SpaOffRoute(s, t, f1, f2) ==
  IF FindLayer("/mode/:modeKey") # 0
    THEN ModeRoute(s, "auto", t, f1, f2)
    ELSE [st |-> s, code |-> 500,
          body |-> [ok |-> FALSE, message |-> "Route handler not found"]]

\* app.get('/modes')
ModesRoute(s) ==
  [st |-> s, code |-> 200, body |-> [ok |-> TRUE, modes |-> ModesList(s.modes)]]

\* the read storing the interpolated percent into the timeline
StatusRouteStoresPercent(s, t) ==
  [st |-> [s EXCEPT !.valve.percent = CurrentValvePercent(s.valve, t)],
   code |-> 200, body |-> StatusPayload(s, t)]

\* app.get('/status')
StatusRoute(s, t) == [st |-> s, code |-> 200, body |-> StatusPayload(s, t)]

EquipmentTypes == {"pump", "pumpSpeed", "inflowValve", "outflowValve", "heater"}

UnknownType == "bogus"

\* the manual requests issued: (type, state) pairs with a state inside and
\* outside the type's domain, and an unknown type
EquipmentInputs ==
  {<<"pumpSpeed", "high">>, <<"inflowValve", "spa">>, <<"heater", "bogus">>,
   <<UnknownType, "on">>}

\* the switch of the /equipment/:type handler on a copy of the current
\* state: the field named by type takes the value when the value is one of
\* the field's two, and the copy is returned unchanged otherwise
UpdateField(cs, type, state) ==
  CASE type = "pump" ->
         IF state \in {"on", "off"} THEN [cs EXCEPT !.pump = state] ELSE cs
    [] type = "pumpSpeed" ->
         IF state \in {"low", "high"} THEN [cs EXCEPT !.pumpSpeed = state] ELSE cs
    [] type = "inflowValve" ->
         IF state \in {"pool", "spa"} THEN [cs EXCEPT !.inflowValve = state] ELSE cs
    [] type = "outflowValve" ->
         IF state \in {"pool", "spa"} THEN [cs EXCEPT !.outflowValve = state] ELSE cs
    [] type = "heater" ->
         IF state \in {"on", "off"} THEN [cs EXCEPT !.heater = state] ELSE cs

\* the handler without the default case of its switch: an unknown type
\* falls through to the driver call
EquipmentRouteNoDefault(s, type, state, t, f) ==
  LET upd == IF type \in EquipmentTypes
               THEN UpdateField(s.currentState, type, state)
               ELSE s.currentState
      a == ApplyEquipmentState(s, upd, f)
  IN IF a.threw
       THEN [st |-> a.st, code |-> 500,
             body |-> [ok |-> FALSE, message |-> DriverError]]
       ELSE LET s2 == [a.st EXCEPT !.status.mode = "service"]
            IN [st |-> s2, code |-> 200, body |-> StatusPayload(s2, t)]

\* the handler storing the value without checking it against the field's
\* domain
EquipmentRouteNoValidation(s, type, state, t, f) ==
  IF type \notin EquipmentTypes
    THEN [st |-> s, code |-> 400,
          body |-> [ok |-> FALSE, message |-> "Unknown equipment type"]]
  ELSE
    LET upd == [s.currentState EXCEPT ![type] = state]
        a == ApplyEquipmentState(s, upd, f)
    IN IF a.threw
         THEN [st |-> a.st, code |-> 500,
               body |-> [ok |-> FALSE, message |-> DriverError]]
         ELSE LET s2 == [a.st EXCEPT !.status.mode = "service"]
              IN [st |-> s2, code |-> 200, body |-> StatusPayload(s2, t)]

\* the handler rejecting the request while a transition is in flight
EquipmentRouteBusyGate(s, type, state, t, f) ==
  IF type \notin EquipmentTypes
    THEN [st |-> s, code |-> 400,
          body |-> [ok |-> FALSE, message |-> "Unknown equipment type"]]
  ELSE IF s.status.busy
    THEN [st |-> s, code |-> 409,
          body |-> [ok |-> FALSE, busy |-> TRUE, message |-> "Busy with another operation"]]
  ELSE
    LET cs == s.currentState
        upd == IF state \in {"on", "off", "low", "high", "pool", "spa"}
                    /\ type \in DOMAIN cs
                 THEN [cs EXCEPT ![type] = state]
                 ELSE cs
        a == ApplyEquipmentState(s, upd, f)
    IN IF a.threw
         THEN [st |-> a.st, code |-> 500,
               body |-> [ok |-> FALSE, message |-> DriverError]]
         ELSE LET s2 == [a.st EXCEPT !.status.mode = "service"]
              IN [st |-> s2, code |-> 200, body |-> StatusPayload(s2, t)]

\* app.post('/equipment/:type'); an exception of the driver call leaves the
\* handler and the framework answers 500
EquipmentRoute(s, type, state, t, f) ==
  IF type \notin EquipmentTypes
    THEN [st |-> s, code |-> 400,
          body |-> [ok |-> FALSE, message |-> "Unknown equipment type"]]
  ELSE
    LET a == ApplyEquipmentState(s, UpdateField(s.currentState, type, state), f)
    IN IF a.threw
         THEN [st |-> a.st, code |-> 500,
               body |-> [ok |-> FALSE, message |-> DriverError]]
         ELSE LET s2 == [a.st EXCEPT !.status.mode = "service"]
              IN [st |-> s2, code |-> 200, body |-> StatusPayload(s2, t)]

\* toggleSimulatorMode: the result state and the value returned
ToggleSimulatorMode(s, enabled) ==
  IF ~s.explicitSimulatorMode /\ ~enabled /\ ~s.gpioHardwareAvailable
    THEN [st |-> s, ok |-> FALSE]
    ELSE [st |-> [s EXCEPT !.simulatorMode = enabled,
                           !.toggles = IF enabled # s.simulatorMode THEN @ + 1 ELSE @],
          ok |-> TRUE]

\* the values of the request body's enabled field: the two booleans, written
\* as their JSON text, and a value that is not a boolean
EnabledValues == {"true", "false", "bogus"}

\* app.post('/simulator')
SimulatorRoute(s, enabledField, t) ==
  IF enabledField \notin {"true", "false"}
    THEN [st |-> s, code |-> 400,
          body |-> [ok |-> FALSE, message |-> "enabled field must be boolean"]]
  ELSE LET r == ToggleSimulatorMode(s, enabledField = "true")
       IN IF ~r.ok
            THEN [st |-> s, code |-> 400,
                  body |-> [ok |-> FALSE, message |-> "Cannot disable simulator mode",
                            simulator |-> s.simulatorMode,
                            gpioHardwareAvailable |-> s.gpioHardwareAvailable]]
            ELSE [st |-> r.st, code |-> 200, body |-> StatusPayload(r.st, t)]

\* ---- the state machine ----
\* the four ways the start-up code can end: SIMULATOR_MODE=true; hardware
\* detected and initialised; no hardware; hardware detected but its
\* initialisation failed
BootConfigs ==
  { [simulatorMode |-> TRUE, explicitSimulatorMode |-> TRUE,
     gpioHardwareAvailable |-> FALSE, gpioReal |-> FALSE],
    [simulatorMode |-> FALSE, explicitSimulatorMode |-> FALSE,
     gpioHardwareAvailable |-> TRUE, gpioReal |-> TRUE],
    [simulatorMode |-> TRUE, explicitSimulatorMode |-> FALSE,
     gpioHardwareAvailable |-> FALSE, gpioReal |-> FALSE],
    [simulatorMode |-> TRUE, explicitSimulatorMode |-> FALSE,
     gpioHardwareAvailable |-> TRUE, gpioReal |-> FALSE] }

InitStatus == [mode |-> "auto", target |-> Null, busy |-> FALSE, lastError |-> Null]

InitValve ==
  [percent |-> Pct(0), moving |-> FALSE, from |-> Pct(0), to |-> Pct(0),
   startMs |-> 0, durationMs |-> VALVE_WAIT_MS]

Init ==
  /\ modes \in Catalogs
  /\ status = InitStatus
  /\ valve = InitValve
  /\ currentState = DefaultEquipment
  /\ gpioStates = AllLow
  /\ hw = AllLow
  /\ \E b \in BootConfigs :
       /\ simulatorMode = b.simulatorMode
       /\ explicitSimulatorMode = b.explicitSimulatorMode
       /\ gpioHardwareAvailable = b.gpioHardwareAvailable
       /\ gpioReal = b.gpioReal
  /\ now = 0
  /\ tasks = <<>>
  /\ faults = 0
  /\ toggles = 0

\* a handler's step, r being what the route returns: the state it leaves and
\* the response it sends.  The budgets hold, and a transition that suspends
\* has its timer within the modelled time
Step(r) ==
  /\ r.st.faults <= MaxFaults
  /\ r.st.toggles <= MaxToggles
  /\ Len(r.st.tasks) > Len(tasks) => now + VALVE_WAIT_MS <= MaxNow
  /\ Assign(r.st)
  /\ UNCHANGED now

\* GET /mode/:modeKey
ModeRequest(modeKey) ==
  \E f1 \in FaultChoices(St) : \E f2 \in FallbackChoices(St, f1) :
    Step(ModeRoute(St, modeKey, now, f1, f2))

\* GET /spa/on: the /mode/:modeKey handler with modeKey = 'spa'
SpaOn ==
  \E f1 \in FaultChoices(St) : \E f2 \in FallbackChoices(St, f1) :
    Step(SpaOnRoute(St, now, f1, f2))

\* GET /spa/off: the /mode/:modeKey handler with modeKey = 'auto'
SpaOff ==
  \E f1 \in FaultChoices(St) : \E f2 \in FallbackChoices(St, f1) :
    Step(SpaOffRoute(St, now, f1, f2))

\* GET /status
StatusRequest ==
  \E t \in {now} : Step(StatusRoute(St, t))

\* GET /modes
ModesRequest ==
  Step(ModesRoute(St))

\* POST /equipment/:type
EquipmentRequest(type, state) ==
  \E f \in FaultChoices(St) : Step(EquipmentRoute(St, type, state, now, f))

\* POST /simulator
SimulatorRequest(enabled) ==
  \E t \in {now} : Step(SimulatorRoute(St, enabled, t))

RemoveAt(seq, i) == SubSeq(seq, 1, i - 1) \o SubSeq(seq, i + 1, Len(seq))

\* the resumption taken without waiting for the timer
WakeEarly(i) ==
  /\ i \in 1..Len(tasks)
  /\ \E f1 \in FaultChoices(St) : \E f2 \in FallbackChoices(St, f1) :
       LET s2 == SwitchToModeResume([St EXCEPT !.tasks = RemoveAt(@, i)], tasks[i], f1, f2)
       IN /\ s2.faults <= MaxFaults
          /\ Assign(s2)
  /\ UNCHANGED now

\* the timer of a suspended switchToMode fires and it runs to its end
Wake(i) ==
  /\ i \in 1..Len(tasks)
  /\ now >= tasks[i].wakeAt
  /\ \E f1 \in FaultChoices(St) : \E f2 \in FallbackChoices(St, f1) :
       LET s2 == SwitchToModeResume([St EXCEPT !.tasks = RemoveAt(@, i)], tasks[i], f1, f2)
       IN /\ s2.faults <= MaxFaults
          /\ Assign(s2)
  /\ UNCHANGED now

WakeAny == \E i \in 1..Len(tasks) : Wake(i)

\* time passes
Tick ==
  /\ now + TickMs <= MaxNow
  /\ now' = now + TickMs
  /\ UNCHANGED <<modes, status, valve, currentState, gpioStates, hw, simulatorMode,
                 explicitSimulatorMode, gpioHardwareAvailable, gpioReal, tasks,
                 faults, toggles>>

Next ==
  \/ \E k \in RequestKeys : ModeRequest(k)
  \/ SpaOn
  \/ SpaOff
  \/ StatusRequest
  \/ ModesRequest
  \/ \E in \in EquipmentInputs : EquipmentRequest(in[1], in[2])
  \/ \E e \in EnabledValues : SimulatorRequest(e)
  \/ WakeAny
  \/ Tick

Spec == Init /\ [][Next]_vars

\* the start-up that finds and initialises the hardware, the one in which
\* a driver call can throw, with the documented catalog; simulator mode is
\* entered by POST /simulator
LiveInit == Init /\ gpioReal /\ modes = StandardCatalog

\* the travel timer eventually fires and time passes
LiveSpec == LiveInit /\ [][Next]_vars /\ WF_vars(WakeAny) /\ WF_vars(Tick)

\* ---- currentValvePercent on its own ----
\* the query times
Times == {k * TickMs : k \in 0..MaxTicks}

\* the percentages a timeline starts from: the rest positions and the
\* positions a valve stopped part-way is at
Quarters == {Pct(0), Pct(25), Pct(50), Pct(75), Pct(100)}

\* the timelines switchToMode writes: to is a valve target, 0 or 100, and a
\* moving timeline has from different from to; percent is a rest position
Timelines ==
  {v \in [percent : {Pct(0), Pct(100)}, moving : BOOLEAN, from : Quarters,
          to : {Pct(0), Pct(100)}, startMs : Times, durationMs : {VALVE_WAIT_MS}] :
     v.moving => v.from # v.to}

TimelineInit ==
  /\ modes = StandardCatalog
  /\ status = InitStatus
  /\ valve \in Timelines
  /\ currentState = DefaultEquipment
  /\ gpioStates = AllLow
  /\ hw = AllLow
  /\ simulatorMode = TRUE
  /\ explicitSimulatorMode = TRUE
  /\ gpioHardwareAvailable = FALSE
  /\ gpioReal = FALSE
  /\ now = 0
  /\ tasks = <<>>
  /\ faults = 0
  /\ toggles = 0

\* the timeline is queried by GET /status while time passes
TimelineNext == StatusRequest \/ Tick

TimelineSpec == TimelineInit /\ [][TimelineNext]_vars

\* ---- loading the catalog ----
\* the order field of a mode file: absent, or a number
OrderChoices == {<<>>, <<0>>, <<1>>, <<2>>}

\* config.order || 999: an absent order and a falsy one give the default
LoadOrder(o) ==
  IF o = <<>> THEN DefaultOrder
  ELSE IF o[1] = 0 THEN DefaultOrder
  ELSE o[1]

\* the contents of the modes directory: the four mode files, each with or
\* without an order
ModeConfigs ==
  {[k \in DOMAIN StandardCatalog |->
      [order |-> ord[k], equipment |-> StandardCatalog[k].equipment]] :
     ord \in [DOMAIN StandardCatalog -> OrderChoices]}

\* ModeConfig.loadFromDirectory
LoadFromDirectory(cfg) ==
  [k \in DOMAIN cfg |-> MC(LoadOrder(cfg[k].order), cfg[k].equipment)]

CatalogInit ==
  /\ modes \in {LoadFromDirectory(cfg) : cfg \in ModeConfigs}
  /\ status = InitStatus
  /\ valve = InitValve
  /\ currentState = DefaultEquipment
  /\ gpioStates = AllLow
  /\ hw = AllLow
  /\ simulatorMode = TRUE
  /\ explicitSimulatorMode = TRUE
  /\ gpioHardwareAvailable = FALSE
  /\ gpioReal = FALSE
  /\ now = 0
  /\ tasks = <<>>
  /\ faults = 0
  /\ toggles = 0

\* the list of modes is read by GET /modes and GET /status while time passes
CatalogNext == ModesRequest \/ StatusRequest \/ Tick

CatalogSpec == CatalogInit /\ [][CatalogNext]_vars

\* ---- the viewer (templates/app.js) ----
\* the constant offsets of the viewers' clocks from the server's
ClockOffsets == {0 - TickMs, 0, TickMs}

\* the number of snapshots a viewer has received
MaxSamples == 3

\* updateClockSkew with the sample taken the other way round
UpdateClockSkewReversed(clockSkewMs, serverNow, clientNow) ==
  LET sample == serverNow - clientNow
  IN IF clockSkewMs = 0 THEN sample ELSE (clockSkewMs * 8 + sample * 2) \div 10

\* updateClockSkew: clockSkewMs after a snapshot with this serverNow is
\* received at clientNow (Date.now() of the viewer)
UpdateClockSkew(clockSkewMs, serverNow, clientNow) ==
  LET sample == clientNow - serverNow
  IN IF clockSkewMs = 0 THEN sample ELSE (clockSkewMs * 8 + sample * 2) \div 10

\* clockSkewMs of a viewer with clock offset d after n snapshots, each
\* received at the server time serverNow it carries
RECURSIVE SkewAfter(_, _, _)
SkewAfter(n, d, serverNow) ==
  IF n = 0 THEN 0
  ELSE UpdateClockSkew(SkewAfter(n - 1, d, serverNow), serverNow, serverNow + d)

\* setTimelineFromStatus: valvePercentIdle and valveTimeline from a snapshot
SetTimelineFromStatus(j) ==
  [valvePercentIdle |-> j.valve.percent,
   valveTimeline |-> [moving |-> j.valve.moving, from |-> j.valve.from,
                      to |-> j.valve.to, startMs |-> j.valve.startMs,
                      durationMs |-> j.valve.durationMs]]

\* the percent the tick of startValveRaf renders at the viewer's clientNow
RenderPercent(view, clockSkewMs, clientNow) ==
  IF view.valveTimeline.moving /\ view.valveTimeline.durationMs > 0
    THEN LET nowServer == clientNow - clockSkewMs
             tl == view.valveTimeline
         IN tl.from + ((tl.to - tl.from) * Clamp(nowServer - tl.startMs, 0, tl.durationMs))
                        \div tl.durationMs
    ELSE view.valvePercentIdle

\* ---- properties ----
\* the outcomes the /mode/:modeKey handler can have in the current state:
\* the state it leaves and the response it sends
ModeOutcomes(k) ==
  {ModeRoute(St, k, now, f1, f2) : f1 \in FaultChoices(St), f2 \in FaultPoints \cup {NoFault}}

\* C1: at most one switchToMode is in flight at any time: a request never
\* starts a transition next to one that is suspended, and none is queued
SingleFlight ==
  /\ Len(tasks) <= 1
  /\ Len(tasks) = 1 => status.busy /\ status.target = tasks[1].modeKey

\* a transition is in flight, half-way through its travel, and a request for
\* another mode is rejected
SingleFlightWitness ==
  /\ Len(tasks) = 1
  /\ now > valve.startMs
  /\ now < tasks[1].wakeAt
  /\ \E k \in DOMAIN modes : \E r \in ModeOutcomes(k) : r.code = 409 /\ Len(r.st.tasks) = 1

\* C2: in every reachable state, a request for a known key while busy with
\* another target gets 409, starts nothing and changes no field of status,
\* valve or equipment
BusyRejected ==
  \A k \in DOMAIN modes :
    (status.busy /\ status.target # k) =>
      \A r \in ModeOutcomes(k) : r.code = 409 /\ r.st = St

\* busy with target spa after a manual request, and a request for auto
BusyRejectedWitness ==
  /\ status.busy
  /\ status.target = "spa"
  /\ status.mode = "service"
  /\ valve.moving
  /\ \E r \in ModeOutcomes("auto") : r.code = 409 /\ r.st = St

\* C3: in every reachable state, idle or busy, a request for a key outside
\* the catalog gets 404 and changes nothing
UnknownModeRejected ==
  \A k \in RequestKeys \ DOMAIN modes :
    \A r \in ModeOutcomes(k) : r.code = 404 /\ r.st = St

\* an unknown key requested while a transition is in flight
UnknownModeRejectedWitness ==
  /\ status.busy
  /\ valve.moving
  /\ UnknownKey \notin DOMAIN modes
  /\ \E r \in ModeOutcomes(UnknownKey) : r.code = 404

\* C4: in every reachable state, a request for the target of the transition
\* in flight returns the current status and changes nothing: no second
\* transition, same timeline, same target
IdempotentRetry ==
  \A k \in DOMAIN modes :
    (status.busy /\ status.target = k) =>
      \A r \in ModeOutcomes(k) :
        r.code = 200 /\ r.body = StatusPayload(St, now) /\ r.st = St

\* a retry answered half-way through the travel
IdempotentRetryWitness ==
  /\ status.busy
  /\ Len(tasks) = 1
  /\ now > valve.startMs
  /\ now < tasks[1].wakeAt
  /\ \E r \in ModeOutcomes(status.target) :
       r.code = 200 /\ r.body.busy /\ r.body.target = status.target /\ r.st.started = 0

\* the state a suspended transition leaves when its timer fires and no
\* driver call throws
Completed(task) ==
  SwitchToModeResume([St EXCEPT !.tasks = <<>>], task, NoFault, NoFault)

\* a request for k is accepted: known key, not busy, not the current mode
Accepted(k) == k \in DOMAIN modes /\ ~status.busy /\ status.mode # k

\* C5 as claimed: the response to every accepted request has busy = true and
\* target = modeKey
AcceptedResponseBusy ==
  \A k \in DOMAIN modes :
    Accepted(k) =>
      \A r \in ModeOutcomes(k) : r.code = 200 /\ r.body.busy /\ r.body.target = k

\* C5 as amended: the response to an accepted request has busy = true and
\* target = modeKey exactly when its transition has suspended for the valve
\* travel; otherwise switchToMode has run to its end before the response is
\* built and the response has busy = false and target = null.  While a
\* transition is suspended every handler sees busy = true.
AcceptedResponse ==
  /\ \A k \in DOMAIN modes :
       Accepted(k) =>
         \A r \in ModeOutcomes(k) :
           /\ r.code = 200
           /\ r.st.started = 1
           /\ r.body = StatusPayload(r.st, now)
           /\ IF Len(r.st.tasks) = 1
                THEN r.body.busy /\ r.body.target = k
                ELSE ~r.body.busy /\ r.body.target = Null
  /\ Len(tasks) > 0 => status.busy /\ StatusRoute(St, now).body.busy

\* a request has just been accepted from a mode reached by an earlier
\* transition, and its switchToMode is suspended: the status it was answered
\* with has busy = true and the target
AcceptedResponseWitness ==
  /\ Len(tasks) = 1
  /\ now = valve.startMs
  /\ now > 0
  /\ status.mode # "auto"
  /\ StatusPayload(St, now).busy
  /\ StatusPayload(St, now).target = tasks[1].modeKey

\* the catalog of the scenario: auto on the pool side, spa with both valves
\* on spa, pump on/high, heater on
ScenarioCatalog ==
  /\ {"auto", "spa"} \subseteq DOMAIN modes
  /\ modes["auto"].equipment.inflowValve = "pool"
  /\ modes["auto"].equipment.outflowValve = "pool"
  /\ modes["spa"].equipment = ES("on", "high", "spa", "spa", "on")

\* C6: idle in auto at 0 percent, a request for spa whose driver call does
\* not throw answers busy, target spa, valve moving from 0 to 100; and the
\* step in which that transition ends without a throw is taken no earlier
\* than startMs + durationMs and leaves mode spa, busy false, percent 100
ScenarioAutoToSpa ==
  /\ [](ScenarioCatalog /\ ~status.busy /\ status.mode = "auto"
          /\ ~valve.moving /\ valve.percent = Pct(0)
        => \A r \in ModeOutcomes("spa") :
             r.st.faults = faults =>
               /\ r.code = 200
               /\ r.body.busy /\ r.body.target = "spa"
               /\ r.body.valve.moving
               /\ r.body.valve.from = Pct(0) /\ r.body.valve.to = Pct(100)
               /\ r.body.valve.startMs = now
               /\ Len(r.st.tasks) = 1)
  /\ [][(ScenarioCatalog /\ Len(tasks) = 1 /\ tasks[1].modeKey = "spa"
           /\ tasks' = <<>> /\ faults' = faults)
        => /\ now >= valve.startMs + valve.durationMs
           /\ status'.mode = "spa"
           /\ ~status'.busy
           /\ ~valve'.moving
           /\ valve'.percent = Pct(100)]_vars

\* the scenario has run: idle in spa at 100 percent after a travel from 0
ScenarioAutoToSpaWitness ==
  /\ status.mode = "spa"
  /\ ~status.busy
  /\ status.lastError = Null
  /\ ~valve.moving
  /\ valve.from = Pct(0) /\ valve.to = Pct(100) /\ valve.percent = Pct(100)
  /\ valve.startMs = 0
  /\ now >= valve.startMs + valve.durationMs
  /\ currentState = ES("on", "high", "spa", "spa", "on")

\* the valve target of mode k, from its catalog entry
ValveTarget(k) ==
  IF modes[k].equipment.inflowValve = "spa" /\ modes[k].equipment.outflowValve = "spa"
    THEN Pct(100)
    ELSE Pct(0)

Settled(s, k) ==
  /\ s.status.mode = k
  /\ ~s.valve.moving
  /\ s.valve.percent = ValveTarget(k)

\* C7: in every reachable state, a transition to M that ends without a
\* throw, at once or after the travel, leaves mode = M, moving = false and
\* percent = 100 if both valves of M are on spa, 0 otherwise
RoundTrip ==
  /\ \A k \in DOMAIN modes :
       Accepted(k) =>
         \A r \in ModeOutcomes(k) :
           (r.st.faults = faults /\ Len(r.st.tasks) = 0) => Settled(r.st, k)
  /\ \A i \in 1..Len(tasks) : Settled(Completed(tasks[i]), tasks[i].modeKey)

\* a transition from 100 percent to a mode with exactly one valve on spa is
\* about to end
RoundTripWitness ==
  /\ Len(tasks) = 1
  /\ now >= tasks[1].wakeAt
  /\ valve.from = Pct(100)
  /\ modes[tasks[1].modeKey].equipment.inflowValve = "spa"
  /\ modes[tasks[1].modeKey].equipment.outflowValve = "pool"
  /\ Completed(tasks[1]).valve.percent = Pct(0)
  /\ Completed(tasks[1]).status.mode = tasks[1].modeKey

\* C8 as claimed: a request for the mode the system is idle in changes
\* nothing, calls no driver, and its response reports moving = false
AlreadyInModeNoop ==
  \A k \in DOMAIN modes :
    (~status.busy /\ status.mode = k) =>
      \A r \in ModeOutcomes(k) :
        /\ r.code = 200
        /\ r.st = St
        /\ ~r.body.busy
        /\ ~r.body.valve.moving

\* C9: busy is true exactly when target is not null, in every state a
\* handler can observe
BusyIffTarget ==
  /\ status.busy <=> status.target # Null
  /\ StatusPayload(St, now).busy <=> StatusPayload(St, now).target # Null

\* idle again after a failed transition: both cleared
BusyIffTargetWitness ==
  /\ ~status.busy
  /\ status.target = Null
  /\ status.lastError # Null
  /\ faults > 0

\* C10: every started transition eventually clears busy and target
BusyEventuallyClears ==
  status.busy ~> (~status.busy /\ status.target = Null)

\* busy has been cleared by a transition whose driver call threw after the
\* travel and whose fallback to service threw as well
BusyEventuallyClearsWitness ==
  /\ ~status.busy
  /\ status.target = Null
  /\ status.lastError # Null
  /\ status.mode = "auto"
  /\ ~valve.moving
  /\ valve.percent = Pct(100)
  /\ currentState = modes["service"].equipment
  /\ hw # gpioStates

\* the states a suspended transition can leave when its timer fires
ResumeOutcomes(i) ==
  {SwitchToModeResume([St EXCEPT !.tasks = RemoveAt(@, i)], tasks[i], f1, f2) :
     f1 \in FaultChoices(St), f2 \in FaultPoints \cup {NoFault}}

\* a driver call has thrown in the handler run that left s
Failed(s) == s.faults > faults

\* lastError set, the driver in the service configuration, mode service
InSafeMode(s) ==
  /\ s.status.lastError = DriverError
  /\ s.currentState = s.modes["service"].equipment
  /\ s.status.mode = "service"
  /\ ~s.status.busy

\* C11 as claimed: every transition in which a driver call throws, before or
\* after the travel and whatever its target, ends idle in service with
\* lastError set and the driver commanded into the service configuration
FailureGoesToService ==
  /\ \A k \in DOMAIN modes :
       Accepted(k) =>
         \A r \in ModeOutcomes(k) : Failed(r.st) => InSafeMode(r.st)
  /\ \A i \in 1..Len(tasks) :
       \A s \in ResumeOutcomes(i) : Failed(s) => InSafeMode(s)

\* C12 as claimed: a transition that fails with its timeline started leaves
\* moving = false and percent = the interpolated percent at the failure
FailureStopsValveInPlace ==
  /\ \A k \in DOMAIN modes :
       (Accepted(k) /\ CurrentValvePercent(valve, now) # GetValvePercentForMode(modes, k)) =>
         \A r \in ModeOutcomes(k) :
           Failed(r.st) =>
             /\ ~r.st.valve.moving
             /\ r.st.valve.percent = CurrentValvePercent(valve, now)
  /\ \A i \in 1..Len(tasks) :
       \A s \in ResumeOutcomes(i) :
         Failed(s) =>
           /\ ~s.valve.moving
           /\ s.valve.percent = CurrentValvePercent(valve, now)

\* C13 as claimed: after a failed transition the pin levels are those of the
\* service configuration, all five of them
FailureLeavesCompleteState ==
  /\ \A k \in DOMAIN modes :
       Accepted(k) =>
         \A r \in ModeOutcomes(k) :
           Failed(r.st) => r.st.hw = PinImage(modes["service"].equipment)
  /\ \A i \in 1..Len(tasks) :
       \A s \in ResumeOutcomes(i) :
         Failed(s) => s.hw = PinImage(modes["service"].equipment)

\* C14 as claimed: every accepted transition whose valve target is above the
\* current valve percent holds the pump at low speed (PUMP_TURBO = 0) from
\* its first driver call on, whatever the key of the target mode
LowSpeedDuringTravel ==
  \A k \in DOMAIN modes :
    (Accepted(k) /\ GetValvePercentForMode(modes, k) > CurrentValvePercent(valve, now)) =>
      \A r \in ModeOutcomes(k) :
        Len(r.st.tasks) = 1 =>
          /\ r.st.currentState.pumpSpeed = "low"
          /\ r.st.gpioStates["PUMP_TURBO"] = 0

\* C15 as claimed: a transition to M that completes without a throw, at once
\* or after the travel, leaves the driver's state and pin image equal to M's
\* catalog equipment, whatever was requested during the travel
CompletionAppliesTarget ==
  /\ \A k \in DOMAIN modes :
       Accepted(k) =>
         \A r \in ModeOutcomes(k) :
           (~Failed(r.st) /\ Len(r.st.tasks) = 0) =>
             /\ r.st.currentState = modes[k].equipment
             /\ r.st.gpioStates = PinImage(modes[k].equipment)
  /\ \A i \in 1..Len(tasks) :
       /\ Completed(tasks[i]).currentState = modes[tasks[i].modeKey].equipment
       /\ Completed(tasks[i]).gpioStates = PinImage(modes[tasks[i].modeKey].equipment)

\* C16 as claimed: while a transition m -> t is suspended, a step either
\* leaves it suspended with status.mode unchanged, or ends it idle in t when
\* no driver call throws, or ends it idle in service when one does
TransitionSuccessors ==
  [][Len(tasks) = 1 =>
       \/ /\ tasks' = tasks
          /\ status' = status
       \/ /\ tasks' = <<>>
          /\ faults' = faults
          /\ ~status'.busy
          /\ status'.mode = tasks[1].modeKey
       \/ /\ tasks' = <<>>
          /\ faults' > faults
          /\ ~status'.busy
          /\ status'.mode = "service"]_vars

\* C17: a step that suspends a transition whose valve target differs from
\* the current percent starts the timeline at that instant (startMs = now,
\* durationMs = VALVE_WAIT_MS) with its pre-travel driver call made; and the
\* step that resumes a suspended transition, with the post-travel call and
\* moving = false, is taken at or after startMs + durationMs, later than
\* the instant of the first call
TravelOrdering ==
  [][/\ (/\ Len(tasks) = 0
         /\ Len(tasks') = 1
         /\ CurrentValvePercent(valve, now) # tasks'[1].targetValvePct) =>
          /\ valve'.moving
          /\ valve'.startMs = now
          /\ valve'.durationMs = VALVE_WAIT_MS
          /\ tasks'[1].wakeAt = valve'.startMs + valve'.durationMs
          /\ currentState'.inflowValve = modes[tasks'[1].modeKey].equipment.inflowValve
          /\ currentState'.outflowValve = modes[tasks'[1].modeKey].equipment.outflowValve
     /\ (Len(tasks) = 1 /\ Len(tasks') = 0) =>
          /\ valve.moving
          /\ now >= valve.startMs + valve.durationMs
          /\ now >= tasks[1].wakeAt
          /\ now > tasks[1].wakeAt - VALVE_WAIT_MS
          /\ (faults' = faults => ~valve'.moving)
          /\ (faults' = faults /\ tasks[1].modeKey = "spa" =>
                currentState' = modes["spa"].equipment)]_vars

\* a second transition, started after time 0, has been resumed at the end of
\* its travel from 100 to 0
TravelOrderingWitness ==
  /\ tasks = <<>>
  /\ ~status.busy
  /\ status.lastError = Null
  /\ ~valve.moving
  /\ valve.startMs > 0
  /\ valve.from = Pct(100) /\ valve.to = Pct(0) /\ valve.percent = Pct(0)
  /\ now >= valve.startMs + valve.durationMs

\* C19 as claimed: whenever a reader sees busy = true, the timeline in the
\* status is the one of the transition in flight: moving, to = the valve
\* target of status.target, startMs = the time that transition started,
\* durationMs = VALVE_WAIT_MS
BusyTimelineFresh ==
  StatusPayload(St, now).busy =>
    /\ Len(tasks) = 1
    /\ StatusPayload(St, now).valve.moving
    /\ StatusPayload(St, now).valve.to = GetValvePercentForMode(modes, status.target)
    /\ StatusPayload(St, now).valve.startMs = tasks[1].wakeAt - VALVE_WAIT_MS
    /\ StatusPayload(St, now).valve.durationMs = VALVE_WAIT_MS

\* C18: for a timeline at rest currentValvePercent returns percent; for a
\* moving one, over every two query times t1 <= now, the result does not
\* decrease when to > from and does not increase when to < from, lies
\* between from and to and in 0..100, is from up to startMs and exactly to
\* from startMs + durationMs on
ValvePercentMonotone ==
  \A t1 \in Times :
    LET p1 == CurrentValvePercent(valve, t1)
        p2 == CurrentValvePercent(valve, now)
        lo == IF valve.from < valve.to THEN valve.from ELSE valve.to
        hi == IF valve.from < valve.to THEN valve.to ELSE valve.from
    IN /\ ~valve.moving => p1 = valve.percent
       /\ (valve.moving /\ t1 <= now) =>
            /\ valve.to > valve.from => p1 <= p2
            /\ valve.to < valve.from => p1 >= p2
            /\ lo <= p1 /\ p1 <= hi
            /\ Pct(0) <= p1 /\ p1 <= Pct(100)
            /\ t1 <= valve.startMs => p1 = valve.from
            /\ t1 >= valve.startMs + valve.durationMs => p1 = valve.to
            /\ StatusRoute(St, now).body.valve.percent = p2

\* a moving timeline queried part-way and again after its end: strictly
\* between from and to, then to
ValvePercentMonotoneWitness ==
  /\ valve.moving
  /\ valve.from > valve.to
  /\ now > valve.startMs + valve.durationMs
  /\ CurrentValvePercent(valve, now) = valve.to
  /\ \E t1 \in Times :
       /\ t1 > valve.startMs
       /\ t1 < now
       /\ CurrentValvePercent(valve, t1) < valve.from
       /\ CurrentValvePercent(valve, t1) > valve.to

\* C20: in every reachable state, idle or in the middle of a transition,
\* GET /status and GET /modes leave the whole state as it is (status,
\* timeline, equipment, pins, the suspended transition and its timer), the
\* snapshot in a /mode response is built from the state the handler leaves,
\* and the transition in flight ends as it would have without the read
ReadsHaveNoEffect ==
  /\ StatusRoute(St, now).st = St
  /\ StatusRoute(St, now).code = 200
  /\ ModesRoute(St).st = St
  /\ ModesRoute(St).code = 200
  /\ \A k \in DOMAIN modes :
       \A r \in ModeOutcomes(k) :
         r.code = 200 => r.body = StatusPayload(r.st, now)
  /\ \A i \in 1..Len(tasks) :
       SwitchToModeResume([StatusRoute(St, now).st EXCEPT !.tasks = <<>>],
                          StatusRoute(St, now).st.tasks[i], NoFault, NoFault)
         = Completed(tasks[i])

\* a status read part-way through a travel: it reports a percent strictly
\* between from and to, and the list of modes
ReadsHaveNoEffectWitness ==
  /\ Len(tasks) = 1
  /\ status.busy
  /\ now > valve.startMs
  /\ now < tasks[1].wakeAt
  /\ StatusRoute(St, now).body.valve.percent > valve.from
  /\ StatusRoute(St, now).body.valve.percent < valve.to
  /\ StatusRoute(St, now).body.valve.percent # valve.percent
  /\ Len(ModesRoute(St).body.modes) = Cardinality(DOMAIN modes)

\* the outcomes the other handlers can have in the current state
EquipmentOutcomes ==
  {EquipmentRoute(St, in[1], in[2], now, f) : in \in EquipmentInputs, f \in FaultChoices(St)}

SimulatorOutcomes == {SimulatorRoute(St, e, now) : e \in EnabledValues}

EquipmentValues == {"on", "off", "low", "high", "pool", "spa", "bogus"}

\* the enumerated domain of each field of an EquipmentState
FieldDomain(type) ==
  CASE type \in {"pump", "heater"} -> {"on", "off"}
    [] type = "pumpSpeed" -> {"low", "high"}
    [] type \in {"inflowValve", "outflowValve"} -> {"pool", "spa"}

\* the state a manual request is to leave: the current EquipmentState with
\* the field set when the value is in the field's domain
ExpectedState(type, state) ==
  IF state \in FieldDomain(type)
    THEN [f \in DOMAIN currentState |->
            IF f = type THEN state ELSE currentState[f]]
    ELSE currentState

\* manual requests for every field: values of the field's domain, a value
\* of another field's domain and a value of none
ManualCases ==
  {<<"pump", "on">>, <<"pump", "off">>, <<"pump", "spa">>, <<"pumpSpeed", "high">>,
   <<"inflowValve", "spa">>, <<"outflowValve", "spa">>, <<"heater", "on">>,
   <<"heater", "bogus">>}

ManualOverrideUngated ==
  \A in \in EquipmentInputs : \A f \in FaultChoices(St) :
    LET r == EquipmentRoute(St, in[1], in[2], now, f)
    IN /\ r.code # 409
       /\ (in[1] \in EquipmentTypes /\ f = NoFault) => r.code = 200
       /\ r.code = 200 =>
            /\ r.body.busy = status.busy
            /\ r.body.valve.moving = valve.moving
       /\ r.st.status.busy = status.busy
       /\ r.st.status.target = status.target
       /\ r.st.status.lastError = status.lastError
       /\ r.st.valve = valve
       /\ r.st.tasks = tasks

\* during the travel of a switch to spa from 0 percent, a manual request has
\* set pumpSpeed to high; the transition is still in flight
ManualOverrideUngatedWitness ==
  /\ status.busy
  /\ Len(tasks) = 1
  /\ tasks[1].modeKey = "spa"
  /\ valve.moving
  /\ valve.from = Pct(0)
  /\ now < tasks[1].wakeAt
  /\ status.mode = "service"
  /\ currentState.pumpSpeed = "high"
  /\ currentState.inflowValve = "spa"

\* C24: in every reachable state the reported pin levels are the image of
\* the current EquipmentState, pin by pin; hence PUMP_TURBO = 1 implies
\* PUMP = 1; and switching the pump off keeps pumpSpeed as it is
RelayMapping ==
  /\ gpioStates["PUMP"] = 1 <=> currentState.pump = "on"
  /\ gpioStates["PUMP_TURBO"] = 1 <=>
       (currentState.pump = "on" /\ currentState.pumpSpeed = "high")
  /\ gpioStates["RELAY_INFLOW"] = 1 <=> currentState.inflowValve = "spa"
  /\ gpioStates["RELAY_OUTFLOW"] = 1 <=> currentState.outflowValve = "spa"
  /\ gpioStates["HEATER_SPA"] = 1 <=> currentState.heater = "on"
  /\ \A p \in PinNames : gpioStates[p] \in {0, 1}
  /\ gpioStates["PUMP_TURBO"] = 1 => gpioStates["PUMP"] = 1
  /\ currentState \in EquipmentStates
  /\ StatusPayload(St, now).gpio = gpioStates
  /\ StatusPayload(St, now).equipment = currentState
  /\ EquipmentRoute(St, "pump", "off", now, NoFault).st.currentState.pumpSpeed
       = currentState.pumpSpeed

\* the pump is off with pumpSpeed high retained and the inflow valve on spa:
\* PUMP_TURBO is 0 and RELAY_INFLOW is 1
RelayMappingWitness ==
  /\ currentState.pump = "off"
  /\ currentState.pumpSpeed = "high"
  /\ currentState.inflowValve = "spa"
  /\ currentState.outflowValve = "pool"
  /\ gpioStates["PUMP_TURBO"] = 0
  /\ gpioStates["PUMP"] = 0
  /\ gpioStates["RELAY_INFLOW"] = 1

\* C25: the catalog in every reachable state is one of the catalogs loaded
\* at startup, and no step changes it: not a switch (with its low-speed
\* hold on a copy), a manual request, a failure or its fallback
CatalogNeverMutated ==
  /\ [](modes \in Catalogs)
  /\ [][modes' = modes]_vars

\* the low-speed hold is in force during a travel to spa: the driver's
\* state has pumpSpeed low, the catalog entry still has high
CatalogNeverMutatedWitness ==
  /\ Len(tasks) = 1
  /\ tasks[1].modeKey = "spa"
  /\ now > valve.startMs
  /\ now < tasks[1].wakeAt
  /\ currentState = ES("on", "low", "spa", "spa", "on")
  /\ modes["spa"].equipment = ES("on", "high", "spa", "spa", "on")

\* the position of a key in the order of insertion
InsertionIndex(k) == CHOOSE i \in 1..Len(InsertionOrder) : InsertionOrder[i] = k

\* the list of /modes and /status holds every mode once, by ascending order,
\* ties in insertion order
ListSorted ==
  LET list == ModesRoute(St).body.modes
  IN /\ StatusPayload(St, now).modes = list
     /\ Len(list) = Cardinality(DOMAIN modes)
     /\ {list[p].key : p \in 1..Len(list)} = DOMAIN modes
     /\ \A p \in 1..Len(list) : list[p].order = modes[list[p].key].order
     /\ \A p, q \in 1..Len(list) :
          p < q =>
            \/ list[p].order < list[q].order
            \/ /\ list[p].order = list[q].order
               /\ InsertionIndex(list[p].key) < InsertionIndex(list[q].key)

\* C26 as claimed: the list is sorted as above, a mode whose file gives no
\* order has order 999, and a mode whose file gives an order has that order
SortedModes ==
  /\ ListSorted
  /\ \A cfg \in ModeConfigs :
       LoadFromDirectory(cfg) = modes =>
         \A k \in DOMAIN cfg :
           modes[k].order =
             IF cfg[k].order = <<>> THEN DefaultOrder ELSE cfg[k].order[1]

\* C27: in every reachable state, a viewer with any of the clock offsets
\* that has received one or more snapshots has clockSkewMs equal to its
\* offset, and from the current snapshot it renders, at every later instant
\* t at which the server's timeline is still the same, the percent the
\* server computes at t; so any two viewers render the same percent
ClockSkewCompensated ==
  LET j == StatusPayload(St, now)
      view == SetTimelineFromStatus(j)
  IN \A d \in ClockOffsets :
       /\ \A n \in 1..MaxSamples : SkewAfter(n, d, j.serverNow) = d
       /\ \A t \in Times :
            t >= now =>
              RenderPercent(view, SkewAfter(MaxSamples, d, j.serverNow), t + d)
                = CurrentValvePercent(valve, t)

\* part-way through a travel a viewer whose clock is ahead renders the
\* server's percent, strictly between from and to, where the same viewer
\* without compensation renders another one
ClockSkewCompensatedWitness ==
  /\ valve.moving
  /\ now > valve.startMs
  /\ now < valve.startMs + valve.durationMs
  /\ valve.from < valve.to
  /\ LET view == SetTimelineFromStatus(StatusPayload(St, now))
     IN /\ RenderPercent(view, SkewAfter(2, TickMs, now), now + TickMs) > valve.from
        /\ RenderPercent(view, SkewAfter(2, TickMs, now), now + TickMs) < valve.to
        /\ RenderPercent(view, 0, now + TickMs)
             # RenderPercent(view, SkewAfter(2, TickMs, now), now + TickMs)

\* C28 as claimed: in every reachable state, simulator mode is off only if
\* GPIO hardware is available
SimulatorNeedsHardware ==
  /\ ~simulatorMode => gpioHardwareAvailable
  /\ StatusPayload(St, now).simulator = FALSE =>
       StatusPayload(St, now).gpioHardwareAvailable = TRUE

\* the current state with the driver in simulator mode, and with the driver
\* writing real lines
InSimulator(s) == [s EXCEPT !.simulatorMode = TRUE]

InHardware(s) == [s EXCEPT !.simulatorMode = FALSE, !.gpioReal = TRUE]

\* what the status reports of a state: status, timeline, equipment, reported
\* pin levels, and the transition in flight
Reported(s) ==
  [status |-> s.status, valve |-> s.valve, currentState |-> s.currentState,
   gpioStates |-> s.gpioStates, tasks |-> s.tasks]

\* C29: from every reachable state, with the driver in simulator mode a
\* driver call writes no pin, does not throw, and records the state and
\* its pin image; and a switch request, the resumption of a transition and
\* a manual request leave the same status, timeline, reported equipment and
\* reported pin levels as they do in hardware mode when no write throws
SimulatorSameEffect ==
  /\ \A k \in DOMAIN modes : \A f \in FaultPoints \cup {NoFault} :
       LET a == ApplyEquipmentState(InSimulator(St), modes[k].equipment, f)
       IN /\ ~a.threw
          /\ a.st.hw = hw
          /\ a.st.currentState = modes[k].equipment
          /\ a.st.gpioStates = PinImage(modes[k].equipment)
  /\ \A k \in RequestKeys :
       LET sim == ModeRoute(InSimulator(St), k, now, NoFault, NoFault)
           hard == ModeRoute(InHardware(St), k, now, NoFault, NoFault)
       IN /\ Reported(sim.st) = Reported(hard.st)
          /\ sim.code = hard.code
          /\ sim.st.hw = hw
  /\ \A i \in 1..Len(tasks) :
       LET sim == SwitchToModeResume([InSimulator(St) EXCEPT !.tasks = <<>>],
                                     tasks[i], NoFault, NoFault)
           hard == SwitchToModeResume([InHardware(St) EXCEPT !.tasks = <<>>],
                                      tasks[i], NoFault, NoFault)
       IN Reported(sim) = Reported(hard) /\ sim.hw = hw
  /\ \A in \in EquipmentInputs :
       LET sim == EquipmentRoute(InSimulator(St), in[1], in[2], now, NoFault)
           hard == EquipmentRoute(InHardware(St), in[1], in[2], now, NoFault)
       IN /\ Reported(sim.st) = Reported(hard.st)
          /\ sim.code = hard.code
          /\ sim.st.hw = hw

\* in simulator mode a switch to spa has completed: the status reports the
\* spa equipment and all five pins at 1, and no pin has been written
SimulatorSameEffectWitness ==
  /\ simulatorMode
  /\ status.mode = "spa"
  /\ ~status.busy
  /\ valve.percent = Pct(100)
  /\ ~valve.moving
  /\ currentState = modes["spa"].equipment
  /\ gpioStates = [p \in PinNames |-> 1]
  /\ hw = AllLow

\* a catalog loaded without the file of mode k
Without(cat, k) == [j \in DOMAIN cat \ {k} |-> cat[j]]

\* C30: from every reachable state and for every outcome of the driver,
\* GET /spa/on gives the same status code, body and resulting state as
\* GET /mode/spa, and GET /spa/off the same as GET /mode/auto; also when
\* the catalog was loaded without the key, where both answer 404
LegacyAliases ==
  /\ \A f1 \in FaultChoices(St) : \A f2 \in FallbackChoices(St, f1) :
       /\ SpaOnRoute(St, now, f1, f2) = ModeRoute(St, "spa", now, f1, f2)
       /\ SpaOffRoute(St, now, f1, f2) = ModeRoute(St, "auto", now, f1, f2)
  /\ LET s == [St EXCEPT !.modes = Without(modes, "spa")]
     IN /\ SpaOnRoute(s, now, NoFault, NoFault) = ModeRoute(s, "spa", now, NoFault, NoFault)
        /\ SpaOnRoute(s, now, NoFault, NoFault).code = 404
        /\ SpaOnRoute(s, now, NoFault, NoFault).st = s
  /\ LET s == [St EXCEPT !.modes = Without(modes, "auto")]
     IN /\ SpaOffRoute(s, now, NoFault, NoFault) = ModeRoute(s, "auto", now, NoFault, NoFault)
        /\ SpaOffRoute(s, now, NoFault, NoFault).code = 404
        /\ SpaOffRoute(s, now, NoFault, NoFault).st = s

\* a switch to spa is in flight: /spa/on is the idempotent retry and
\* /spa/off the busy conflict, neither changing the state
LegacyAliasesWitness ==
  /\ status.busy
  /\ status.target = "spa"
  /\ SpaOnRoute(St, now, NoFault, NoFault).code = 200
  /\ SpaOnRoute(St, now, NoFault, NoFault).st = St
  /\ SpaOffRoute(St, now, NoFault, NoFault).code = 409
  /\ SpaOffRoute(St, now, NoFault, NoFault).st = St

\* C31 as claimed: a transition whose driver calls do not throw starts a
\* timeline exactly when the target percent differs from the interpolated
\* percent, with from = that percent, to = the target, startMs = now, the
\* fixed duration and moving = true; when they are equal it does not
\* suspend and leaves every field of the valve as it is
TimelineStart ==
  \A k \in DOMAIN modes :
    Accepted(k) =>
      LET currentValvePct == CurrentValvePercent(valve, now)
          targetValvePct == GetValvePercentForMode(modes, k)
          s == SwitchToModeBegin(St, k, now, NoFault, NoFault)
      IN IF currentValvePct # targetValvePct
           THEN /\ s.valve = [valve EXCEPT !.from = currentValvePct,
                                           !.to = targetValvePct,
                                           !.startMs = now,
                                           !.durationMs = VALVE_WAIT_MS,
                                           !.moving = TRUE]
                /\ Len(s.tasks) = Len(tasks) + 1
           ELSE /\ s.valve = valve
                /\ s.tasks = tasks

\* C32 as claimed: while a transition is in flight the percent a status
\* read reports lies between from and to at every instant from now on, and
\* when its timer fires and no driver call throws, the percent reported
\* right after the finalisation is the one reported right before it
NoJumpAtFinalisation ==
  \A i \in 1..Len(tasks) :
    /\ \A t \in Times :
         t >= now =>
           LET p == StatusPayload(St, t).valve.percent
           IN IF valve.from <= valve.to
                THEN valve.from <= p /\ p <= valve.to
                ELSE valve.to <= p /\ p <= valve.from
    /\ now >= tasks[i].wakeAt =>
         StatusPayload(Completed(tasks[i]), now).valve.percent
           = StatusPayload(St, now).valve.percent

\* C33 as claimed: in every state in which no transition is in flight the
\* valve timeline is not moving
IdleValveAtRest == ~status.busy => ~valve.moving

\* C34 as claimed: a timeline in motion runs from one end point to the
\* other: from and to are 0 or 100 and differ
FullRangeTimeline ==
  valve.moving =>
    /\ valve.from \in {Pct(0), Pct(100)}
    /\ valve.to \in {Pct(0), Pct(100)}
    /\ valve.from # valve.to

\* C35: in every reachable state with valve.moving = false, after
\* transitions that completed and transitions that failed, the stable
\* valve.percent is 0 or 100
StablePercentAtEndPoint ==
  ~valve.moving => valve.percent \in {Pct(0), Pct(100)}

\* a transition has failed after its travel to 100 and the fallback has
\* returned: the valve is at rest with the stable percent reset to 0
StablePercentAtEndPointWitness ==
  /\ ~valve.moving
  /\ valve.percent = Pct(0)
  /\ valve.to = Pct(100)
  /\ now >= valve.startMs + valve.durationMs
  /\ status.lastError = DriverError
  /\ status.mode = "service"
  /\ ~status.busy

\* C36 as claimed: in every idle state whose status.mode is a catalog mode
\* other than service, the driver's current EquipmentState is that mode's
\* catalog EquipmentState, from the state after boot onwards
IdleModeMatchesDriver ==
  (~status.busy /\ status.mode \in DOMAIN modes /\ status.mode # "service") =>
    currentState = modes[status.mode].equipment

\* the same after the first request, with the state after boot left aside
IdleModeMatchesDriverAfterBoot ==
  (~status.busy /\ status.mode \in DOMAIN modes /\ status.mode # "service"
     /\ (status.lastError # Null \/ status.mode # "auto"
           \/ currentState # DefaultEquipment)) =>
    currentState = modes[status.mode].equipment

\* C37 as claimed: in hardware mode a driver call in which a pin write
\* throws leaves the recorded EquipmentState and the reported pin levels as
\* they were
RecordedStateAllOrNothing ==
  (gpioReal /\ ~simulatorMode) =>
    \A k \in DOMAIN modes : \A f \in FaultPoints :
      LET a == ApplyEquipmentState(St, modes[k].equipment, f)
      IN a.threw =>
           /\ a.st.currentState = currentState
           /\ a.st.gpioStates = gpioStates

\* C38: in every reachable state, idle or busy, a manual request for an
\* unknown equipment type is answered 400 whatever its value and leaves the
\* whole state as it is: equipment, reported and written pin levels,
\* status, valve timeline and pending transition; the driver is not called
UnknownTypeRejected ==
  \A state \in EquipmentValues : \A f \in FaultChoices(St) :
    LET r == EquipmentRoute(St, UnknownType, state, now, f)
    IN /\ r.code = 400
       /\ r.body.ok = FALSE
       /\ r.st = St
       /\ r.st.calls = 0

\* during the travel of a switch to spa in hardware mode, with mode still
\* auto, a request for an unknown type is rejected and nothing changes
UnknownTypeRejectedWitness ==
  /\ status.busy
  /\ status.target = "spa"
  /\ status.mode = "auto"
  /\ valve.moving
  /\ gpioReal
  /\ ~simulatorMode
  /\ EquipmentRoute(St, UnknownType, "on", now, NoFault).code = 400
  /\ EquipmentRoute(St, UnknownType, "on", now, NoFault).st = St

\* ---- the legacy spa server (spa-server.js) ----
\* its state: status = [state, target, busy, lastError], the valve timeline,
\* the levels written to the five pins (hw), the suspended doSpaOn/doSpaOff
\* (tasks) and the number of handler runs in which a write has thrown
LegacyStatus == [state |-> "off", target |-> Null, busy |-> FALSE, lastError |-> Null]

LegacySt == [status |-> status, valve |-> valve, hw |-> hw, tasks |-> tasks, faults |-> faults]

\* the writes of gpioOff(PUMP, PUMP_TURBO, RELAY_INFLOW, RELAY_OUTFLOW, HEATER_SPA)
AllOffWrites ==
  <<<<"PUMP", 0>>, <<"PUMP_TURBO", 0>>, <<"RELAY_INFLOW", 0>>, <<"RELAY_OUTFLOW", 0>>,
    <<"HEATER_SPA", 0>>>>

\* the writes of doSpaOn before its await: gpioOff(PUMP_TURBO), then
\* gpioOn(PUMP, RELAY_INFLOW, RELAY_OUTFLOW, HEATER_SPA)
SpaOnWrites ==
  <<<<"PUMP_TURBO", 0>>, <<"PUMP", 1>>, <<"RELAY_INFLOW", 1>>, <<"RELAY_OUTFLOW", 1>>,
    <<"HEATER_SPA", 1>>>>

\* the writes of /pump/quickclean
QuickcleanWrites ==
  <<<<"PUMP", 1>>, <<"PUMP_TURBO", 1>>, <<"RELAY_INFLOW", 0>>, <<"RELAY_OUTFLOW", 0>>,
    <<"HEATER_SPA", 0>>>>

\* gpioOn/gpioOff: the writes are made in order; with f < Len(writes) the
\* write after the first f throws, the earlier ones staying written
GpioWrite(levels, writes, f) ==
  LET done == IF f < Len(writes) THEN f ELSE Len(writes)
  IN [hw |-> [p \in PinNames |->
                IF \E i \in 1..done : writes[i][1] = p
                  THEN writes[CHOOSE i \in 1..done : writes[i][1] = p][2]
                  ELSE levels[p]],
      threw |-> f < Len(writes)]

\* the outcomes of a handler's writes: none throws, the first write throws,
\* or the second does
LegacyFaultChoices(l) == IF l.faults >= MaxFaults THEN {NoFault} ELSE {NoFault, 0, 1}

\* the outcomes of the writes of a catch block
LegacyCatchChoices(f1) == IF f1 = NoFault THEN {NoFault} ELSE {NoFault, 0}

\* the finally block of doSpaOn and of doSpaOff
LegacyFinally(l) == [l EXCEPT !.status.busy = FALSE, !.status.target = Null]

\* the first lines of doSpaOn and doSpaOff: busy, working, the target and
\* the new timeline
LegacyStart(l, target, to, t) ==
  [l EXCEPT !.status.busy = TRUE, !.status.state = "working", !.status.target = target,
            !.valve.from = CurrentValvePercent(l.valve, t),
            !.valve.to = to,
            !.valve.startMs = t,
            !.valve.durationMs = VALVE_WAIT_MS,
            !.valve.moving = TRUE]

\* the catch block of doSpaOn; a throw of its gpioOff leaves through the
\* finally block
DoSpaOnCatch(l, f) ==
  LET w == GpioWrite(l.hw, AllOffWrites, f)
      s1 == [l EXCEPT !.status.lastError = DriverError, !.hw = w.hw,
                      !.faults = @ + 1]
  IN IF w.threw
       THEN s1
       ELSE [s1 EXCEPT !.valve.percent = Pct(0), !.valve.moving = FALSE,
                       !.status.state = "off"]

\* doSpaOn from its call to its await, or to its end when a write throws
DoSpaOnBegin(l, t, f1, f2) ==
  LET s0 == LegacyStart(l, "on", Pct(100), t)
      w == GpioWrite(s0.hw, SpaOnWrites, f1)
      s1 == [s0 EXCEPT !.hw = w.hw]
  IN IF w.threw
       THEN LegacyFinally(DoSpaOnCatch(s1, f2))
       ELSE [s1 EXCEPT !.tasks = Append(@, [kind |-> "on", wakeAt |-> t + VALVE_WAIT_MS])]

\* doSpaOn from the return of its await to its end
DoSpaOnResume(l, f1, f2) ==
  LET w == GpioWrite(l.hw, <<<<"PUMP_TURBO", 1>>>>, f1)
      s1 == [l EXCEPT !.hw = w.hw]
  IN IF w.threw
       THEN LegacyFinally(DoSpaOnCatch(s1, f2))
       ELSE LegacyFinally([s1 EXCEPT !.valve.percent = Pct(100), !.valve.moving = FALSE,
                                     !.status.state = "on"])

\* the catch block of doSpaOff: it records the error and nothing else
DoSpaOffCatch(l) ==
  [l EXCEPT !.status.lastError = DriverError, !.faults = @ + 1]

\* doSpaOff from its call to its await, or to its end when a write throws
DoSpaOffBegin(l, t, f1) ==
  LET s0 == LegacyStart(l, "off", Pct(0), t)
      w == GpioWrite(s0.hw, AllOffWrites, f1)
      s1 == [s0 EXCEPT !.hw = w.hw]
  IN IF w.threw
       THEN LegacyFinally(DoSpaOffCatch(s1))
       ELSE [s1 EXCEPT !.tasks = Append(@, [kind |-> "off", wakeAt |-> t + VALVE_WAIT_MS])]

\* doSpaOff from the return of its await to its end
DoSpaOffResume(l) ==
  LegacyFinally([l EXCEPT !.valve.percent = Pct(0), !.valve.moving = FALSE,
                          !.status.state = "off"])

\* app.get('/spa/on') of the legacy server
LegacySpaOnRoute(l, t, f1, f2) ==
  IF ~l.status.busy /\ l.status.state = "on" THEN [st |-> l, code |-> 200]
  ELSE IF l.status.busy /\ l.status.target = "on" THEN [st |-> l, code |-> 200]
  ELSE IF l.status.busy THEN [st |-> l, code |-> 409]
  ELSE [st |-> DoSpaOnBegin(l, t, f1, f2), code |-> 200]

\* app.get('/spa/off') of the legacy server
LegacySpaOffRoute(l, t, f1) ==
  IF ~l.status.busy /\ l.status.state = "off" THEN [st |-> l, code |-> 200]
  ELSE IF l.status.busy /\ l.status.target = "off" THEN [st |-> l, code |-> 200]
  ELSE IF l.status.busy THEN [st |-> l, code |-> 409]
  ELSE [st |-> DoSpaOffBegin(l, t, f1), code |-> 200]

\* app.get('/pump/quickclean'): the writes, with no check of busy; a throw
\* leaves the handler and the framework answers 500
QuickcleanRoute(l, f) ==
  LET w == GpioWrite(l.hw, QuickcleanWrites, f)
  IN [st |-> [l EXCEPT !.hw = w.hw, !.faults = IF w.threw THEN @ + 1 ELSE @],
      code |-> IF w.threw THEN 500 ELSE 200]

LegacyInit ==
  /\ modes = StandardCatalog
  /\ status = LegacyStatus
  /\ valve = InitValve
  /\ currentState = DefaultEquipment
  /\ gpioStates = AllLow
  /\ hw = AllLow
  /\ simulatorMode = FALSE
  /\ explicitSimulatorMode = FALSE
  /\ gpioHardwareAvailable = TRUE
  /\ gpioReal = TRUE
  /\ now = 0
  /\ tasks = <<>>
  /\ faults = 0
  /\ toggles = 0

\* a step of a legacy handler leaving the state l
LegacyStep(l) ==
  /\ l.faults <= MaxFaults
  /\ Len(l.tasks) > Len(tasks) => now + VALVE_WAIT_MS <= MaxNow
  /\ status' = l.status
  /\ valve' = l.valve
  /\ hw' = l.hw
  /\ tasks' = l.tasks
  /\ faults' = l.faults
  /\ UNCHANGED <<modes, currentState, gpioStates, simulatorMode, explicitSimulatorMode,
                 gpioHardwareAvailable, gpioReal, now, toggles>>

LegacySpaOn ==
  \E f1 \in LegacyFaultChoices(LegacySt) : \E f2 \in LegacyCatchChoices(f1) :
    LegacyStep(LegacySpaOnRoute(LegacySt, now, f1, f2).st)

LegacySpaOff ==
  \E f1 \in LegacyFaultChoices(LegacySt) :
    LegacyStep(LegacySpaOffRoute(LegacySt, now, f1).st)

LegacyQuickclean ==
  \E f \in LegacyFaultChoices(LegacySt) : LegacyStep(QuickcleanRoute(LegacySt, f).st)

\* app.get('/status') of the legacy server
LegacyStatusRequest ==
  \E t \in {now} :
    /\ CurrentValvePercent(valve, t) \in Int
    /\ LegacyStep(LegacySt)

\* the timer of a suspended doSpaOn or doSpaOff fires
LegacyWake ==
  \E i \in 1..Len(tasks) :
    /\ now >= tasks[i].wakeAt
    /\ LET l == [LegacySt EXCEPT !.tasks = RemoveAt(@, i)]
       IN IF tasks[i].kind = "on"
            THEN \E f1 \in {NoFault, 0} \cap LegacyFaultChoices(LegacySt) :
                   \E f2 \in LegacyCatchChoices(f1) :
                     LegacyStep(DoSpaOnResume(l, f1, f2))
            ELSE LegacyStep(DoSpaOffResume(l))

LegacyNext ==
  \/ LegacySpaOn
  \/ LegacySpaOff
  \/ LegacyQuickclean
  \/ LegacyStatusRequest
  \/ LegacyWake
  \/ Tick

LegacySpec == LegacyInit /\ [][LegacyNext]_vars

\* C39 as claimed: between the handlers of the legacy server, status.state
\* is 'working' exactly when busy is true, and is 'on' or 'off' when idle
WorkingIffBusy ==
  /\ status.state = "working" <=> status.busy
  /\ ~status.busy => status.state \in {"on", "off"}

====
